---------------------------- MODULE Spec2Model ----------------------------
(***************************************************************************)
(* A model of the Gemini chat clients of this repository:                  *)
(*   - chat.py            the interactive command-line loop (GeminiChat),  *)
(*   - FlaskServer.pytApp.py  the Flask request handlers (/chat, /clear,   *)
(*                        /history) over the cookie-carried session,       *)
(*   - first.py           the one-shot prompt script.                      *)
(* Text is modelled as a sequence of one-character strings, so that        *)
(* strip(), lower(), startswith(), "\n".join() and the f-strings are       *)
(* computed as the code computes them.                                     *)
(***************************************************************************)
EXTENDS Integers, Sequences, FiniteSets, TLC

(***************************************************************************)
(* Text helpers (Python str operations used by the programs).              *)
(***************************************************************************)

\* Characters str.strip() removes from both ends.
Whitespace == {" ", "\t", "\n", "\r"}

UpperCase ==
    <<"A","B","C","D","E","F","G","H","I","J","K","L","M",
      "N","O","P","Q","R","S","T","U","V","W","X","Y","Z">>

LowerCase ==
    <<"a","b","c","d","e","f","g","h","i","j","k","l","m",
      "n","o","p","q","r","s","t","u","v","w","x","y","z">>

\* The lowercase letter of each uppercase letter.
LowerTable ==
    [c \in {UpperCase[i] : i \in 1..Len(UpperCase)} |->
        LowerCase[CHOOSE i \in 1..Len(UpperCase) : UpperCase[i] = c]]

\* str.lower() on one character.
LowerChar(c) == IF c \in DOMAIN LowerTable THEN LowerTable[c] ELSE c

\* str.lower()
lower(s) == [i \in 1..Len(s) |-> LowerChar(s[i])]

RECURSIVE lstrip(_)
lstrip(s) ==
    IF s # <<>> /\ Head(s) \in Whitespace THEN lstrip(Tail(s)) ELSE s

RECURSIVE rstrip(_)
rstrip(s) ==
    IF s # <<>> /\ s[Len(s)] \in Whitespace
    THEN rstrip(SubSeq(s, 1, Len(s) - 1))
    ELSE s

\* str.strip()
strip(s) == rstrip(lstrip(s))

\* str.startswith(p)
startswith(s, p) == Len(s) >= Len(p) /\ SubSeq(s, 1, Len(p)) = p

\* sep.join(parts)
RECURSIVE join(_, _)
join(sep, parts) ==
    IF parts = <<>> THEN <<>>
    ELSE IF Len(parts) = 1 THEN parts[1]
    ELSE parts[1] \o sep \o join(sep, Tail(parts))

\* text.split("\n"): the lines of a text.
RECURSIVE SplitLines(_)
SplitLines(text) ==
    IF \A i \in 1..Len(text) : text[i] # "\n" THEN <<text>>
    ELSE LET k == CHOOSE i \in 1..Len(text) :
                     /\ text[i] = "\n"
                     /\ \A j \in 1..(i - 1) : text[j] # "\n"
         IN  <<SubSeq(text, 1, k - 1)>> \o SplitLines(SubSeq(text, k + 1, Len(text)))

\* seq[-n:]
LastN(seq, n) ==
    IF Len(seq) <= n THEN seq ELSE SubSeq(seq, Len(seq) - n + 1, Len(seq))

Min(a, b) == IF a <= b THEN a ELSE b

(***************************************************************************)
(* String constants of the programs.                                       *)
(***************************************************************************)

\* "You are a helpful AI assistant. Please respond to the user's questions
\*  and requests in a friendly, informative manner."
Persona == <<
    "Y","o","u"," ","a","r","e"," ","a"," ","h","e","l","p","f","u","l"," ",
    "A","I"," ","a","s","s","i","s","t","a","n","t","."," ","P","l","e","a",
    "s","e"," ","r","e","s","p","o","n","d"," ","t","o"," ","t","h","e"," ",
    "u","s","e","r","'","s"," ","q","u","e","s","t","i","o","n","s"," ","a",
    "n","d"," ","r","e","q","u","e","s","t","s"," ","i","n"," ","a"," ","f",
    "r","i","e","n","d","l","y",","," ","i","n","f","o","r","m","a","t","i",
    "v","e"," ","m","a","n","n","e","r","." >>

\* "You are a helpful AI assistant. Here's our recent conversation:"
Preamble == <<
    "Y","o","u"," ","a","r","e"," ","a"," ","h","e","l","p","f","u","l"," ",
    "A","I"," ","a","s","s","i","s","t","a","n","t","."," ","H","e","r","e",
    "'","s"," ","o","u","r"," ","r","e","c","e","n","t"," ","c","o","n","v",
    "e","r","s","a","t","i","o","n",":" >>

UserLabel == <<"U","s","e","r">>

AssistantLabel == <<"A","s","s","i","s","t","a","n","t">>

\* The number of most recent messages rendered into the context.
ContextWindow == 10

(***************************************************************************)
(* Turns and the context builders.                                         *)
(***************************************************************************)

\* {"role": ..., "content": ..., "timestamp": datetime.now().isoformat()}
Turn(role, content, now) ==
    [role |-> role, content |-> content, timestamp |-> now]

\* role = "User" if msg["role"] == "user" else "Assistant"
RoleLabel(role) == IF role = "user" THEN UserLabel ELSE AssistantLabel

\* f"{role}: {msg['content']}"
RenderTurn(msg) == RoleLabel(msg.role) \o <<":", " ">> \o msg.content

\* Faulty variant of the window slice: one message too few.
RecentHistoryShort(history) == LastN(history, ContextWindow - 1)

\* recent_history = history[-10:]
RecentHistory(history) == LastN(history, ContextWindow)

\* Faulty variant of the builder: no branch for the empty history, the preamble
\* is always rendered.
GeminiChat_build_context_NoEmptyBranch(conversation_history) ==
    join(<<"\n">>,
         <<Preamble>> \o
         [i \in 1..Len(RecentHistory(conversation_history)) |->
             RenderTurn(RecentHistory(conversation_history)[i])])

\* GeminiChat._build_context (chat.py)
GeminiChat_build_context(conversation_history) ==
    IF conversation_history = <<>> THEN Persona
    ELSE LET recent_history == RecentHistory(conversation_history)
             context_parts ==
                 <<Preamble>> \o
                 [i \in 1..Len(recent_history) |-> RenderTurn(recent_history[i])]
         IN  join(<<"\n">>, context_parts)

\* build_context (FlaskServer.pytApp.py), over the list the session holds
build_context(history) ==
    IF history = <<>> THEN Persona
    ELSE LET recent_history == RecentHistory(history)
             context_parts ==
                 <<Preamble>> \o
                 [i \in 1..Len(recent_history) |-> RenderTurn(recent_history[i])]
         IN  join(<<"\n">>, context_parts)

\* Faulty variant: the builder cuts the stored list down to the window.
HistoryAfterBuildTruncates(conversation_history) ==
    LastN(conversation_history, ContextWindow)

\* self.conversation_history once _build_context has returned: the builder
\* reads the list, slices a copy of it and assigns nothing to it.
HistoryAfterBuild(conversation_history) == conversation_history

\* session['conversation_history'] once build_context has returned: it reads
\* the list through get_conversation_history and slices a copy of it.
SessionAfterBuild(history) == history

(***************************************************************************)
(* The state of a run.  A run is one process: chat.py, first.py, or the    *)
(* Flask server (started by its __main__ block, or imported by a WSGI      *)
(* server, which skips that block).                                        *)
(***************************************************************************)

VARIABLES
    entry,                 \* which program / entry point was started
    GEMINI_API_KEY,        \* the environment variable: [set, value]
    pc,                    \* where the process is
    exit_status,           \* the process's exit status; -1 while it runs
    out,                   \* what the last step printed or answered: [status, body, text]
    calls,                 \* generate_content calls issued so far
    accepted,              \* ordinary (non-empty, non-command) inputs accepted so far
    conversation_history,  \* GeminiChat.conversation_history
    client,                \* the genai.Client of chat.py / first.py
    user_input,            \* chat.py: user_input of _chat_loop
    full_prompt,           \* chat.py / first.py: the prompt of the call in flight
    cookie,                \* Flask: the session cookie each browser holds
    req,                   \* Flask: the /chat requests being served
    expected,              \* per conversation: the turns of the exchanges completed since
                           \* it was last empty (start or clear)
    clean                  \* per conversation: no exchange failed since then

\* The builders applied to a transcript of any shape (specification SpecBuild).
VARIABLES
    bHistory,       \* a transcript handed to the builders
    bContextChat,   \* what GeminiChat._build_context returns for it
    bContextFlask,  \* what build_context returns for it
    builds          \* how often the builders ran on it

buildVars == <<bHistory, bContextChat, bContextFlask, builds>>

mainVars ==
    <<entry, GEMINI_API_KEY, pc, exit_status, out, calls, accepted,
      conversation_history, client, user_input, full_prompt,
      cookie, req, expected, clean>>

vars == <<mainVars, buildVars>>

\* Ordinary inputs accepted in one run.
MaxInputs == 2

Entries == {"chat.py", "FlaskServer.__main__", "FlaskServer.wsgi", "first.py"}

\* Browsers (session identities).
Sessions == {"s1", "s2"}

\* The /chat requests of a run that carry an ordinary message, numbered in
\* the order they arrive; they may be served concurrently.
Requests == {1, 2}

\* The conversations: the loop's, and one per session identity.
Conversations == {"loop"} \cup Sessions

\* os.getenv("GEMINI_API_KEY"): unset, set to the empty string, set to a key.
EnvValues ==
    { [set |-> FALSE, value |-> <<>>],
      [set |-> TRUE, value |-> <<>>],
      [set |-> TRUE, value |-> <<"k">>] }

\* if not api_key / if not os.getenv("GEMINI_API_KEY")
KeyMissing(env) == ~env.set \/ env.value = <<>>

\* Lines typed at the prompt "You: " (input() returns one line, no "\n").
LoopLines ==
    { <<>>, <<" ", "\t">>,
      <<"h","i">>, <<" ","y","o"," ">>,
      <<"/","h","e","l","p">>,
      <<"/","c","l","e","a","r">>, <<" ","/","C","l","e","a","r"," ">>,
      <<"/","h","i","s","t","o","r","y">>,
      <<"/","e","x","i","t">>,
      <<"/","f","o","o">>, <<"/","c","l","e","a","r"," ","x">> }

\* Values of the "message" field of a /chat body.
ChatMessages ==
    { <<>>, <<" ", "\n">>, <<"h","i">>, <<" ","y","o"," ">> }

\* What a generate_content call ends with: a response whose .text is a
\* string, a response whose .text is None, or an exception.
Outcomes ==
    { [kind |-> "text", text |-> <<"o","k">>],
      [kind |-> "text", text |-> <<" ","o","k","\n">>],
      [kind |-> "text", text |-> <<>>],
      [kind |-> "none", text |-> <<>>],
      [kind |-> "raise", text |-> <<>>] }

RolesContents(history) ==
    [i \in 1..Len(history) |-> [role |-> history[i].role, content |-> history[i].content]]

\* f"{context}\n\nUser: {user_input}"
FullPrompt(context, message) ==
    context \o <<"\n", "\n">> \o UserLabel \o <<":", " ">> \o message

\* Printed notices (status 0) or an HTTP response.
Out(status, body, text) == [status |-> status, body |-> body, text |-> text]

NoRequest ==
    [st |-> "new", sid |-> "s1", user_message |-> <<>>,
     loaded |-> <<>>, session |-> <<>>,
     full_prompt |-> <<>>, client |-> "none"]

Init ==
    /\ entry \in Entries
    /\ GEMINI_API_KEY \in EnvValues
    /\ pc = "main"
    /\ exit_status = -1
    /\ out = Out(0, <<>>, <<>>)
    /\ calls = 0
    /\ accepted = 0
    /\ conversation_history = <<>>
    /\ client = "none"
    /\ user_input = <<>>
    /\ full_prompt = <<>>
    /\ cookie = [s \in Sessions |-> <<>>]
    /\ req = [r \in Requests |-> NoRequest]
    /\ expected = [c \in Conversations |-> <<>>]
    /\ clean = [c \in Conversations |-> TRUE]
    /\ bHistory = <<>>
    /\ bContextChat = <<>>
    /\ bContextFlask = <<>>
    /\ builds = 0

\* datetime.now(): the naive local wall clock.  Nothing orders two readings:
\* the system clock can be set back between them, and local time repeats an
\* hour when daylight saving time ends.  An earlier and a later reading.
Readings == {0, 1}

\* Faulty variant of leaving the with block: the client is left as it was.
ClientExitLeaks(c) == c

\* Leaving `with genai.Client(...) as client`, by a return, a break or an
\* exception passing through (SystemExit and KeyboardInterrupt included):
\* the context manager closes the client.
ClientExit(c) == "closed"

\* Faulty variant: a second attempt follows the first.
IssueCallRetries(n) == n + 2

\* client.models.generate_content(...) is invoked: once per prompt, outside
\* any loop, and its exception handler does not call again.
IssueCall(n) == n + 1

(***************************************************************************)
(* chat.py                                                                 *)
(***************************************************************************)

CmdHelp == <<"/","h","e","l","p">>

CmdClear == <<"/","c","l","e","a","r">>

CmdExit == <<"/","e","x","i","t">>

CmdHistory == <<"/","h","i","s","t","o","r","y">>

\* main(): the key check, then GeminiChat(api_key).start_chat() up to the
\* first read of the loop.  Without a key main prints the guidance and
\* returns, so the interpreter ends with the status of a normal return, 0.
ChatMain ==
    /\ entry = "chat.py"
    /\ pc = "main"
    /\ IF KeyMissing(GEMINI_API_KEY)
       THEN /\ out' = Out(0, <<"guidance">>, <<>>)
            /\ pc' = "exited"
            /\ exit_status' = 0
            /\ client' = client
       ELSE /\ out' = Out(0, <<"banner">>, <<>>)
            /\ pc' = "idle"
            /\ exit_status' = exit_status
            /\ client' = "open"
    /\ UNCHANGED <<entry, GEMINI_API_KEY, calls, accepted,
                   conversation_history, user_input, full_prompt,
                   cookie, req, expected, clean>>

\* Faulty variant of the empty-input test: only the empty line is skipped, a line of
\* blanks is not.
IsEmptyInputRaw(line) == line = <<>>

\* user_input = input("You: ").strip(); if not user_input
IsEmptyInput(line) == strip(line) = <<>>

\* if user_input.startswith('/')
IsCommand(input) == startswith(input, <<"/">>)

\* _chat_loop: a line that is empty after strip() -> continue.
ChatEmptyInput(line) ==
    /\ entry = "chat.py"
    /\ pc = "idle"
    /\ IsEmptyInput(line)
    /\ user_input' = strip(line)
    /\ out' = Out(0, <<>>, <<>>)
    /\ UNCHANGED <<entry, GEMINI_API_KEY, pc, exit_status, calls, accepted,
                   conversation_history, client, full_prompt,
                   cookie, req, expected, clean>>

\* Faulty variant of _clear_history: the list keeps its turns.
clear_history_keeps(history) == history

\* _clear_history: self.conversation_history.clear()
clear_history(history) == <<>>

\* Faulty variant of the dispatch: an unknown command clears the history.
CommandNameLax(command) ==
    LET c == strip(lower(command))
    IN  IF c = CmdHelp THEN "help"
        ELSE IF c = CmdExit THEN "exit"
        ELSE IF c = CmdHistory THEN "history"
        ELSE "clear"

\* _handle_command's dispatch on command.lower().strip()
CommandName(command) ==
    LET c == strip(lower(command))
    IN  IF c = CmdHelp THEN "help"
        ELSE IF c = CmdClear THEN "clear"
        ELSE IF c = CmdExit THEN "exit"
        ELSE IF c = CmdHistory THEN "history"
        ELSE "unknown"

\* _chat_loop: a line that starts with "/" goes to _handle_command; then
\* continue.  /exit raises SystemExit(0), which no handler of the loop or of
\* start_chat catches: the with block closes the client and the process ends.
ChatCommand(line) ==
    /\ entry = "chat.py"
    /\ pc = "idle"
    /\    LET input == strip(line)
              name == CommandName(input)
          IN  /\ ~IsEmptyInput(line)
              /\ IsCommand(input)
              /\ user_input' = input
              /\ conversation_history' =
                    IF name = "clear" THEN clear_history(conversation_history)
                    ELSE conversation_history
              /\ expected' =
                    IF name = "clear" THEN [expected EXCEPT !["loop"] = <<>>]
                    ELSE expected
              /\ clean' =
                    IF name = "clear" THEN [clean EXCEPT !["loop"] = TRUE]
                    ELSE clean
              /\ out' = CASE name = "help" -> Out(0, <<"help">>, <<>>)
                          [] name = "clear" -> Out(0, <<"cleared">>, <<>>)
                          [] name = "exit" -> Out(0, <<"goodbye">>, <<>>)
                          [] name = "history" ->
                                IF conversation_history = <<>>
                                THEN Out(0, <<"no_history">>, <<>>)
                                ELSE Out(0, <<"history">>, <<>>)
                          [] OTHER -> Out(0, <<"unknown_command", "help_hint">>, <<>>)
              /\ pc' = IF name = "exit" THEN "exited" ELSE pc
              /\ exit_status' = IF name = "exit" THEN 0 ELSE exit_status
              /\ client' = IF name = "exit" THEN ClientExit(client) ELSE client
    /\ UNCHANGED <<entry, GEMINI_API_KEY, calls, accepted,
                   full_prompt, cookie, req>>

\* Faulty variant of the prompt construction: the context is built from the
\* history as it was before the user turn was recorded.
ChatPromptBeforeAppend(history, input) ==
    FullPrompt(GeminiChat_build_context(SubSeq(history, 1, Len(history) - 1)), input)

\* _get_gemini_response up to the call: context = self._build_context();
\* full_prompt = f"{context}\n\nUser: {user_input}"
ChatPrompt(history, input) ==
    FullPrompt(GeminiChat_build_context(history), input)

\* _chat_loop: an ordinary line.  The user turn is appended, then
\* _get_gemini_response builds the prompt and issues the call.
ChatOrdinaryInput(line, now) ==
    /\ entry = "chat.py"
    /\ pc = "idle"
    /\ accepted < MaxInputs
    /\ now \in Readings
    /\    LET input == strip(line)
          IN  /\ ~IsEmptyInput(line)
              /\ ~IsCommand(input)
              /\ conversation_history' =
                    Append(conversation_history, Turn("user", input, now))
              /\ user_input' = input
              /\ full_prompt' = ChatPrompt(conversation_history', input)
    /\ accepted' = accepted + 1
    /\ calls' = IssueCall(calls)
    /\ pc' = "processing"
    /\ out' = Out(0, <<>>, <<>>)
    /\ UNCHANGED <<entry, GEMINI_API_KEY, exit_status, client, cookie, req,
                   expected, clean>>

\* Faulty variant: the would-be answer is recorded even when there is none.
ChatRecordsAlways(response) == TRUE

\* if response: (response is response.text, or None after an exception)
ChatRecords(response) == response.kind = "text" /\ response.text # <<>>

\* "content": response
ChatAssistantContent(text) == text

\* Faulty variant: a call that gave no answer ends the session.
AfterResponseEndsOnFailure(response) ==
    IF response.kind = "text" /\ response.text # <<>> THEN "idle" ELSE "exited"

\* Where the loop is once the call has returned or raised: after the answer
\* or the failure notice the body of `while True` is over, and an exception
\* is printed and followed by `continue`; input() is called again.
AfterResponse(response) == "idle"

\* The call returns or raises (an Exception, caught in _get_gemini_response,
\* which prints it and returns None); the loop prints and records the answer,
\* or prints the failure notice.
ChatResponse(response, now) ==
    /\ entry = "chat.py"
    /\ pc = "processing"
    /\ now \in Readings
    /\    IF ChatRecords(response)
          THEN /\ out' = Out(0, <<"reply">>, response.text)
               /\ conversation_history' =
                     Append(conversation_history,
                            Turn("assistant", ChatAssistantContent(response.text), now))
               /\ expected' =
                     [expected EXCEPT !["loop"] =
                         @ \o << [role |-> "user", content |-> user_input],
                                 [role |-> "assistant", content |-> response.text] >>]
               /\ clean' = clean
          ELSE /\ out' = IF response.kind = "raise"
                         THEN Out(0, <<"error_getting_response", "no_response">>, <<>>)
                         ELSE Out(0, <<"no_response">>, <<>>)
               /\ conversation_history' = conversation_history
               /\ expected' = expected
               /\ clean' = [clean EXCEPT !["loop"] = FALSE]
    /\ pc' = AfterResponse(response)
    /\ full_prompt' = <<>>
    /\ UNCHANGED <<entry, GEMINI_API_KEY, exit_status, calls, accepted,
                   client, user_input, cookie, req>>

\* Faulty variant: an interrupt during the call is taken for a failed call and
\* the loop goes on.
AfterInterruptSwallowed(at) == IF at = "processing" THEN "idle" ELSE "exited"

\* Where the loop is after a KeyboardInterrupt raised at `at`: in input() it
\* is caught by the loop's handler; in generate_content it passes the
\* `except Exception` of _get_gemini_response and reaches the same handler,
\* which breaks out of the loop.
AfterInterrupt(at) == "exited"

\* KeyboardInterrupt while input() waits or while the call is in flight: it is
\* no Exception, so only the loop's own handler catches it: farewell, break;
\* the with block closes the client, start_chat and main return.
ChatInterrupt ==
    /\ entry = "chat.py"
    /\ pc \in {"idle", "processing"}
    /\ out' = Out(0, <<"newline", "goodbye">>, <<>>)
    /\ pc' = AfterInterrupt(pc)
    /\ exit_status' = 0
    /\ client' = ClientExit(client)
    /\ full_prompt' = <<>>
    /\ clean' = IF pc = "processing" THEN [clean EXCEPT !["loop"] = FALSE] ELSE clean
    /\ UNCHANGED <<entry, GEMINI_API_KEY, calls, accepted,
                   conversation_history, user_input, cookie, req, expected>>

\* input() raises EOFError (the input stream ended): an Exception, printed by
\* the loop's last handler, which continues.
ChatInputError ==
    /\ entry = "chat.py"
    /\ pc = "idle"
    /\ out' = Out(0, <<"error_occurred">>, <<>>)
    /\ UNCHANGED <<entry, GEMINI_API_KEY, pc, exit_status, calls, accepted,
                   conversation_history, client, user_input, full_prompt,
                   cookie, req, expected, clean>>

(***************************************************************************)
(* FlaskServer.pytApp.py.  The session is Flask's default one: the whole   *)
(* session travels in the browser's cookie.  A request works on the copy   *)
(* it arrived with, and a request that modified its copy sends it back     *)
(* with its response, which replaces the browser's cookie.  cookie[s] is   *)
(* the list session['conversation_history'] of browser s; a session        *)
(* without the key reads as the empty list (get_conversation_history).     *)
(***************************************************************************)

FlaskEntries == {"FlaskServer.__main__", "FlaskServer.wsgi"}

\* The __main__ block: without a key, guidance and exit(1); else app.run.
\* A WSGI server imports the module and serves app without that block.
FlaskMain ==
    /\ entry \in FlaskEntries
    /\ pc = "main"
    /\ IF entry = "FlaskServer.__main__" /\ KeyMissing(GEMINI_API_KEY)
       THEN /\ out' = Out(0, <<"guidance">>, <<>>)
            /\ pc' = "exited"
            /\ exit_status' = 1
       ELSE /\ out' = IF entry = "FlaskServer.__main__"
                      THEN Out(0, <<"starting">>, <<>>) ELSE out
            /\ pc' = "serving"
            /\ exit_status' = exit_status
    /\ UNCHANGED <<entry, GEMINI_API_KEY, calls, accepted,
                   conversation_history, client, user_input, full_prompt,
                   cookie, req, expected, clean>>

\* add_to_history: the session's list after the call.
add_to_history(history, role, content, now) ==
    Append(history, Turn(role, content, now))

\* user_message = data.get('message', '').strip(); if not user_message
IsEmptyMessage(message) == strip(message) = <<>>

\* /chat from browser s with a message that is empty after strip(): 400; the
\* session was not touched, so no cookie goes back.
FlaskChatEmpty(s, message) ==
    /\ entry \in FlaskEntries
    /\ pc = "serving"
    /\ IsEmptyMessage(message)
    /\ out' = Out(400, <<"error_empty">>, <<>>)
    /\ UNCHANGED <<entry, GEMINI_API_KEY, pc, exit_status, calls,
                   accepted, conversation_history, client, user_input,
                   full_prompt, cookie, req, expected, clean>>

\* context = build_context(); full_prompt = f"{context}\n\nUser: {user_message}"
FlaskPrompt(history, message) ==
    FullPrompt(build_context(history), message)

\* Request r is the next one to arrive.
Arrives(r) ==
    /\ req[r].st = "new"
    /\ \A q \in Requests : req[q].st = "new" => r <= q

\* /chat from browser s with an ordinary message, up to the call: the user
\* turn is added to the request's session; get_gemini_client() raises
\* ValueError without a key (caught by the handler: 500, and the modified
\* session goes back); else the context is built and the call issued.
FlaskChatOrdinary(r, s, message, now) ==
    /\ entry \in FlaskEntries
    /\ pc = "serving"
    /\ Arrives(r)
    /\ now \in Readings
    /\ accepted' = accepted + 1
    /\ ~IsEmptyMessage(message)
    /\ LET user_message == strip(message)
           session == add_to_history(cookie[s], "user", user_message, now)
       IN  IF KeyMissing(GEMINI_API_KEY)
           THEN /\ req' = [req EXCEPT ![r] = [NoRequest EXCEPT !.st = "done"]]
                /\ out' = Out(500, <<"error_exception">>, <<>>)
                /\ cookie' = [cookie EXCEPT ![s] = session]
                /\ clean' = [clean EXCEPT ![s] = FALSE]
                /\ calls' = calls
           ELSE /\ req' = [req EXCEPT ![r] =
                      [st |-> "inflight", sid |-> s,
                       user_message |-> user_message,
                       loaded |-> cookie[s],
                       session |-> session,
                       full_prompt |-> FlaskPrompt(session, user_message),
                       client |-> "open"]]
                /\ out' = out
                /\ cookie' = cookie
                /\ clean' = clean
                /\ calls' = IssueCall(calls)
    /\ UNCHANGED <<entry, GEMINI_API_KEY, pc, exit_status,
                   conversation_history, client, user_input, full_prompt,
                   expected>>

\* if response and response.text:
FlaskRecords(response) == response.kind = "text" /\ response.text # <<>>

\* gemini_response = response.text
FlaskAssistantContent(text) == text

\* The call of request r returns or raises; the handler records the answer
\* and returns it, or returns a 500.  The with block closes the client, and
\* the request's session replaces the browser's cookie.
FlaskChatResponse(r, response, now) ==
    /\ entry \in FlaskEntries
    /\ pc = "serving"
    /\ req[r].st = "inflight"
    /\ now \in Readings
    /\ LET s == req[r].sid
           session ==
               IF FlaskRecords(response)
               THEN add_to_history(req[r].session, "assistant",
                                   FlaskAssistantContent(response.text), now)
               ELSE req[r].session
       IN  /\ req' = [req EXCEPT ![r] =
                    [NoRequest EXCEPT !.st = "done", !.client = ClientExit(req[r].client)]]
           /\ out' = IF FlaskRecords(response)
                     THEN Out(200, <<"response">>, response.text)
                     ELSE IF response.kind = "raise"
                          THEN Out(500, <<"error_exception">>, <<>>)
                          ELSE Out(500, <<"error_failed">>, <<>>)
           /\ cookie' = [cookie EXCEPT ![s] = session]
           /\ expected' =
                 IF FlaskRecords(response)
                 THEN [expected EXCEPT ![s] =
                         @ \o << [role |-> "user", content |-> req[r].user_message],
                                 [role |-> "assistant", content |-> response.text] >>]
                 ELSE expected
           /\ clean' = IF FlaskRecords(response) THEN clean
                       ELSE [clean EXCEPT ![s] = FALSE]
    /\ UNCHANGED <<entry, GEMINI_API_KEY, pc, exit_status, calls,
                   accepted, conversation_history, client, user_input,
                   full_prompt>>

\* clear_history: session['conversation_history'] = []
cleared_history(history) == <<>>

\* POST /clear from browser s.
FlaskClear(s) ==
    /\ entry \in FlaskEntries
    /\ pc = "serving"
    /\ cookie' = [cookie EXCEPT ![s] = cleared_history(cookie[s])]
    /\ out' = Out(200, <<"history_cleared">>, <<>>)
    /\ expected' = [expected EXCEPT ![s] = <<>>]
    /\ clean' = [clean EXCEPT ![s] = TRUE]
    /\ UNCHANGED <<entry, GEMINI_API_KEY, pc, exit_status, calls, accepted,
                   conversation_history, client, user_input, full_prompt, req>>

\* GET /history from browser s: the list is returned as it is.
FlaskHistory(s) ==
    /\ entry \in FlaskEntries
    /\ pc = "serving"
    /\ out' = Out(200, <<"history">>, <<>>)
    /\ UNCHANGED <<entry, GEMINI_API_KEY, pc, exit_status, calls, accepted,
                   conversation_history, client, user_input, full_prompt,
                   cookie, req, expected, clean>>

(***************************************************************************)
(* first.py                                                                *)
(***************************************************************************)

\* user_prompt
user_prompt == <<
    "I"," ","h","a","v","e"," ","h","e","a","d","a","c","h","e","s"," ","a",
    "n","d"," ","I","'","m"," ","n","o","t"," ","s","u","r","e"," ","w","h",
    "a","t"," ","t","o"," ","d","o"," ","a","b","o","u","t"," ","i","t","." >>

\* system_prompt
system_prompt == <<
    "Y","o","u"," ","a","r","e"," ","a","n"," ","e","x","p","e","r","t"," ",
    "d","o","c","t","o","r"," ","s","p","e","c","i","a","l","i","s","e","d",
    " ","o","n"," ","m","e","n","o","p","a","u","s","e","."," ","T","h","e",
    " ","u","s","e","r"," ","i","s"," ","a"," ","f","e","m","a","l","e"," ",
    "w","h","o"," ","i","s"," ","p","o","s","s","i","b","l","y"," ","g","o",
    "i","n","g"," ","t","h","r","o","u","g","h"," ","m","e","n","o","p","a",
    "u","s","e"," ","i","s","s","u","e","s","."," ","Y","o","u"," ","a","r",
    "e"," ","c","o","n","c","e","r","n","e","d"," ","a","b","o","u","t"," ",
    "h","e","r"," ","w","e","l","l","b","e","i","n","g"," ","h","o","w","e",
    "v","e","r"," ","y","o","u"," ","a","r","e"," ","r","e","l","u","c","t",
    "a","n","t"," ","t","o"," ","g","i","v","e"," ","p","r","e","s","c","r",
    "i","p","t","i","o","n","s"," ","s","i","n","c","e"," ","i","t"," ","c",
    "a","n"," ","h","a","v","e"," ","l","e","g","a","l"," ","c","o","n","s",
    "e","q","u","e","n","c","e","s","."," ","C","o","n","v","e","r","s","e",
    " ","w","i","t","h"," ","h","e","r"," ","g","e","n","t","l","y"," ","a",
    "n","d"," ","g","i","v","e"," ","g","e","n","e","r","a","l"," ","a","d",
    "v","i","c","e"," ","o","n","l","y"," ","b","a","s","e","d"," ","o","n",
    " ","y","o","u","r"," ","u","n","d","e","r","s","t","a","n","d","i","n",
    "g"," ","o","f"," ","h","e","r"," ","c","o","n","d","i","t","i","o","n",
    "."," ","A","l","s","o"," ","c","h","a","t"," ","l","i","k","e"," ","a",
    " ","f","r","i","e","n","d"," ","a","n","d"," ","a","s","k"," ","o","n",
    "e"," ","q","u","e","s","t","i","o","n"," ","a","t"," ","a"," ","t","i",
    "m","e","."," ","W","h","e","n"," ","t","h","e"," ","u","s","e","r"," ",
    "a","p","p","e","a","r","s"," ","t","o"," ","e","n","d"," ","t","h","e",
    " ","c","o","n","v","e","r","s","a","t","i","o","n",","," ","e","n","d",
    " ","t","h","e"," ","c","o","n","v","e","r","s","a","t","i","o","n"," ",
    "w","i","t","h"," ","a"," ","r","e","a","s","s","u","r","i","n","g"," ",
    "t","o","n","e","."," ","A","l","s","o"," ","e","n","s","u","r","e"," ",
    "t","h","a","t"," ","t","h","e"," ","c","o","n","v","e","r","s","a","t",
    "i","o","n"," ","d","o","e","s"," ","n","o","t"," ","g","o"," ","r","a",
    "m","b","l","i","n","g","."," ","N","o","t"," ","m","o","r","e"," ","t",
    "h","a","n"," ","5"," ","q","u","e","s","t","i","o","n","s"," ","f","o",
    "r"," ","t","h","e"," ","f","i","r","s","t"," ","t","i","m","e"," ","t",
    "h","e"," ","s","y","m","p","t","o","m"," ","i","s"," ","b","e","i","n",
    "g"," ","l","o","g","g","e","d",","," ","a","n","d"," ","l","e","s","s",
    " ","t","h","a","n"," ","3"," ","q","u","e","s","t","i","o","n","s"," ",
    "f","o","r"," ","t","h","e"," ","2","n","d"," ","t","i","m","e"," ","l",
    "o","g","g","i","n","g"," ","o","n","w","a","r","d","s"," ","u","n","l",
    "e","s","s"," ","t","h","e"," ","w","o","m","e","n"," ","w","a","n","t",
    " ","t","o"," ","c","h","a","t"," ","m","o","r","e","." >>

\* main() up to the call: without a key RuntimeError is raised outside the
\* try block, so the interpreter prints it and ends with status 1.
FirstMain ==
    /\ entry = "first.py"
    /\ pc = "main"
    /\ IF KeyMissing(GEMINI_API_KEY)
       THEN /\ out' = Out(0, <<"runtime_error">>, <<>>)
            /\ pc' = "exited"
            /\ exit_status' = 1
            /\ UNCHANGED <<client, full_prompt, calls>>
       ELSE /\ out' = Out(0, <<"sending">>, <<>>)
            /\ pc' = "processing"
            /\ client' = "open"
            /\ full_prompt' = FullPrompt(system_prompt, user_prompt)
            /\ calls' = IssueCall(calls)
            /\ exit_status' = exit_status
    /\ UNCHANGED <<entry, GEMINI_API_KEY, accepted, conversation_history,
                   user_input, cookie, req, expected, clean>>

\* The call returns (the text is printed, None included) or raises (the
\* exception is printed); the with block closes the client; main returns.
FirstResponse(response) ==
    /\ entry = "first.py"
    /\ pc = "processing"
    /\    out' = IF response.kind = "raise"
                 THEN Out(0, <<"unexpected_error">>, <<>>)
                 ELSE Out(0, <<"response">>, response.text)
    /\ pc' = "exited"
    /\ exit_status' = 0
    /\ client' = ClientExit(client)
    /\ full_prompt' = <<>>
    /\ UNCHANGED <<entry, GEMINI_API_KEY, calls, accepted,
                   conversation_history, user_input, cookie, req,
                   expected, clean>>

(***************************************************************************)
(* The specification of a run.                                             *)
(***************************************************************************)

Next ==
    \/ ChatMain /\ UNCHANGED buildVars
    \/ \E line \in LoopLines : ChatEmptyInput(line) /\ UNCHANGED buildVars
    \/ \E line \in LoopLines : ChatCommand(line) /\ UNCHANGED buildVars
    \/ \E line \in LoopLines, now \in Readings :
          ChatOrdinaryInput(line, now) /\ UNCHANGED buildVars
    \/ \E response \in Outcomes, now \in Readings :
          ChatResponse(response, now) /\ UNCHANGED buildVars
    \/ ChatInterrupt /\ UNCHANGED buildVars
    \/ ChatInputError /\ UNCHANGED buildVars
    \/ FlaskMain /\ UNCHANGED buildVars
    \/ \E s \in Sessions, message \in ChatMessages :
          FlaskChatEmpty(s, message) /\ UNCHANGED buildVars
    \/ \E r \in Requests, s \in Sessions, message \in ChatMessages, now \in Readings :
          FlaskChatOrdinary(r, s, message, now) /\ UNCHANGED buildVars
    \/ \E r \in Requests, response \in Outcomes, now \in Readings :
          FlaskChatResponse(r, response, now) /\ UNCHANGED buildVars
    \/ \E s \in Sessions : FlaskClear(s) /\ UNCHANGED buildVars
    \/ \E s \in Sessions : FlaskHistory(s) /\ UNCHANGED buildVars
    \/ FirstMain /\ UNCHANGED buildVars
    \/ \E response \in Outcomes : FirstResponse(response) /\ UNCHANGED buildVars

Spec == Init /\ [][Next]_vars

(***************************************************************************)
(* The builders applied to arbitrary transcripts (specification SpecBuild).*)
(***************************************************************************)


\* Longest transcript handed to the builders.
MaxHist == 11

\* The turns a transcript is made of: a user line, an assistant line, and an
\* assistant answer of two lines.
BuildTurns ==
    { Turn("user", <<"h","i">>, 0),
      Turn("assistant", <<"o","k">>, 0),
      Turn("assistant", <<"a","\n","b">>, 0) }

BuildInit ==
    /\ bHistory = <<>>
    /\ bContextChat = GeminiChat_build_context(<<>>)
    /\ bContextFlask = build_context(<<>>)
    /\ builds = 0
    /\ entry = "builders"
    /\ GEMINI_API_KEY = [set |-> FALSE, value |-> <<>>]
    /\ pc = "main"
    /\ exit_status = -1
    /\ out = Out(0, <<>>, <<>>)
    /\ calls = 0
    /\ accepted = 0
    /\ conversation_history = <<>>
    /\ client = "none"
    /\ user_input = <<>>
    /\ full_prompt = <<>>
    /\ cookie = [s \in Sessions |-> <<>>]
    /\ req = [r \in Requests |-> NoRequest]
    /\ expected = [c \in Conversations |-> <<>>]
    /\ clean = [c \in Conversations |-> TRUE]

\* One more turn is appended to the transcript and both builders run on it.
BuildStep ==
    /\ Len(bHistory) < MaxHist
    /\ \E t \in BuildTurns :
          /\ bHistory' = Append(bHistory, t)
          /\ bContextChat' = GeminiChat_build_context(bHistory')
          /\ bContextFlask' = build_context(bHistory')
    /\ builds' = builds
    /\ UNCHANGED mainVars

BuildNext == BuildStep

SpecBuild == BuildInit /\ [][BuildNext]_vars

(***************************************************************************)
(* The builders run repeatedly on one transcript (specification            *)
(* SpecRebuild): the transcript is any sequence of the turns below, up to   *)
(* one turn more than the window; each step runs both builders on it.      *)
(***************************************************************************)

\* Builds of one transcript.
MaxBuilds == 2

RebuildTurns ==
    { Turn("user", <<"h","i">>, 0),
      Turn("assistant", <<"a","\n","b">>, 1) }

RebuildHistories == UNION { [1..n -> RebuildTurns] : n \in 0..MaxHist }

RebuildInit ==
    /\ bHistory \in RebuildHistories
    /\ bContextChat = <<>>
    /\ bContextFlask = <<>>
    /\ builds = 0
    /\ entry = "builders"
    /\ GEMINI_API_KEY = [set |-> FALSE, value |-> <<>>]
    /\ pc = "main"
    /\ exit_status = -1
    /\ out = Out(0, <<>>, <<>>)
    /\ calls = 0
    /\ accepted = 0
    /\ conversation_history = <<>>
    /\ client = "none"
    /\ user_input = <<>>
    /\ full_prompt = <<>>
    /\ cookie = [s \in Sessions |-> <<>>]
    /\ req = [r \in Requests |-> NoRequest]
    /\ expected = [c \in Conversations |-> <<>>]
    /\ clean = [c \in Conversations |-> TRUE]

\* Both builders run on the transcript; it is then what they left of it.
Rebuild ==
    /\ builds < MaxBuilds
    /\ bContextChat' = GeminiChat_build_context(bHistory)
    /\ bContextFlask' = build_context(bHistory)
    /\ bHistory' = SessionAfterBuild(HistoryAfterBuild(bHistory))
    /\ builds' = builds + 1
    /\ UNCHANGED mainVars

RebuildNext == Rebuild

SpecRebuild == RebuildInit /\ [][RebuildNext]_vars

(***************************************************************************)
(* Claims about the context builders (checked under SpecBuild).            *)
(***************************************************************************)

\* The turns the window of w = 10 must show for a transcript h: its last
\* min(L, w) turns, by position, oldest first.
WindowTurns(h) ==
    LET m == Min(Len(h), ContextWindow)
    IN  [i \in 1..m |-> h[Len(h) - m + i]]

RECURSIVE Flatten(_)
Flatten(seqs) ==
    IF seqs = <<>> THEN <<>> ELSE Head(seqs) \o Flatten(Tail(seqs))

\* The text is the preamble line followed by one line per windowed turn.
OneLinePerTurn(text, h) ==
    SplitLines(text) =
        <<Preamble>> \o [i \in 1..Len(WindowTurns(h)) |-> RenderTurn(WindowTurns(h)[i])]

\* The text is the preamble line followed by the entries of the windowed
\* turns in order, each entry being the line(s) of "<Label>: <content>".
OneEntryPerTurn(text, h) ==
    SplitLines(text) =
        <<Preamble>> \o
        Flatten([i \in 1..Len(WindowTurns(h)) |->
                    SplitLines(RenderTurn(WindowTurns(h)[i]))])

NoLineBreak(content) == \A i \in 1..Len(content) : content[i] # "\n"

\* C3 as stated: for every non-empty history of length L the output of either
\* builder is the preamble followed by exactly min(L, 10) turn lines, the last
\* min(L, 10) turns in insertion order, one line per turn.
C3_OneLinePerTurn ==
    bHistory # <<>> =>
        /\ OneLinePerTurn(bContextChat, bHistory)
        /\ OneLinePerTurn(bContextFlask, bHistory)

\* C3 amended: for every non-empty history of length L the output of either
\* builder is the preamble followed by exactly min(L, 10) newline-joined turn
\* entries "<Label>: <content>", the last min(L, 10) turns in insertion order
\* and no older one; an entry is a single line exactly when its content holds
\* no line break, so the output has min(L, 10) turn lines when none of the
\* windowed contents holds a line break.
C3_OneEntryPerTurn ==
    bHistory # <<>> =>
        /\ OneEntryPerTurn(bContextChat, bHistory)
        /\ OneEntryPerTurn(bContextFlask, bHistory)
        /\ (\A i \in 1..Len(WindowTurns(bHistory)) :
                NoLineBreak(WindowTurns(bHistory)[i].content))
           => /\ Len(SplitLines(bContextChat)) = 1 + Min(Len(bHistory), ContextWindow)
              /\ Len(SplitLines(bContextFlask)) = 1 + Min(Len(bHistory), ContextWindow)
              /\ OneLinePerTurn(bContextChat, bHistory)
              /\ OneLinePerTurn(bContextFlask, bHistory)

\* C3 witness: a transcript longer than the window, whose dropped oldest turn
\* differs from the turn that is now the oldest one shown, has been built.
C3_Witness ==
    /\ Len(bHistory) = ContextWindow + 1
    /\ bHistory[1].role = "user"
    /\ bHistory[2].role = "assistant"
    /\ NoLineBreak(bHistory[2].content)
    /\ \E i \in 3..Len(bHistory) : ~NoLineBreak(bHistory[i].content)
    /\ SplitLines(bContextChat)[2] = RenderTurn(bHistory[2])
    /\ SplitLines(bContextFlask)[2] = RenderTurn(bHistory[2])

(***************************************************************************)
(* Claims about a run (checked under Spec).                                *)
(***************************************************************************)

\* A text that is empty once its surrounding whitespace is removed.
AllBlank(text) == \A i \in 1..Len(text) : text[i] \in Whitespace

\* A completion call that fails: the client raises, or there is no usable
\* text in what it returns.
CompletionFails(response) ==
    \/ response.kind = "raise"
    \/ response.kind = "none"
    \/ response.text = <<>>

FailureNotices ==
    { <<"no_response">>, <<"error_getting_response", "no_response">> }

UserTurnOf(message) == [role |-> "user", content |-> message]

\* Some step of the loop that consumes the line.
ChatReads(line) ==
    \/ ChatEmptyInput(line)
    \/ ChatCommand(line)
    \/ \E now \in Readings : ChatOrdinaryInput(line, now)

\* Some /chat request of browser s with the message, up to its call.
FlaskReceives(s, message) ==
    \/ FlaskChatEmpty(s, message)
    \/ \E r \in Requests, now \in Readings : FlaskChatOrdinary(r, s, message, now)

\* C1: an ordinary input whose completion call fails leaves the history as it
\* was before the exchange plus exactly one user turn carrying the input, adds
\* no assistant turn, and the caller gets a failure notice (loop) or a 500
\* (handler) and no assistant text.
C1_FailedCompletionKeepsUserTurn ==
    [][ /\ \A line \in LoopLines, now \in Readings :
              ChatOrdinaryInput(line, now) =>
                  RolesContents(conversation_history') =
                      Append(RolesContents(conversation_history), UserTurnOf(user_input'))
        /\ entry = "chat.py" /\ pc = "processing" =>
              /\ conversation_history # <<>>
              /\ RolesContents(conversation_history)[Len(conversation_history)] =
                     UserTurnOf(user_input)
        /\ \A response \in Outcomes, now \in Readings :
              CompletionFails(response) /\ ChatResponse(response, now) =>
                  /\ conversation_history' = conversation_history
                  /\ out'.body \in FailureNotices
                  /\ out'.text = <<>>
        /\ \A r \in Requests, response \in Outcomes, now \in Readings :
              CompletionFails(response) /\ FlaskChatResponse(r, response, now) =>
                  /\ RolesContents(cookie'[req[r].sid]) =
                        Append(RolesContents(req[r].loaded), UserTurnOf(req[r].user_message))
                  /\ out'.status = 500
                  /\ out'.text = <<>>
        /\ \A r \in Requests, s \in Sessions, message \in ChatMessages, now \in Readings :
              KeyMissing(GEMINI_API_KEY) /\ FlaskChatOrdinary(r, s, message, now) =>
                  /\ RolesContents(cookie'[s]) =
                        Append(RolesContents(cookie[s]), UserTurnOf(strip(message)))
                  /\ out'.status = 500
                  /\ out'.text = <<>>
      ]_vars

\* C1 witness: in the loop a completion failed after an exchange that had
\* succeeded; the history ends with the answered exchange and the lone user turn.
C1_Witness ==
    /\ entry = "chat.py"
    /\ pc = "idle"
    /\ out.body \in FailureNotices
    /\ Len(conversation_history) = 3
    /\ conversation_history[2].role = "assistant"
    /\ conversation_history[3].role = "user"
    /\ conversation_history[3].content = user_input

\* C2: an input that is empty after trimming is rejected before any history
\* mutation and before any completion call: history and number of calls are
\* unchanged; the loop stays idle, the handler answers 400.
C2_EmptyInputRejected ==
    [][ /\ \A line \in LoopLines :
              AllBlank(line) /\ ChatReads(line) =>
                  /\ conversation_history' = conversation_history
                  /\ calls' = calls
                  /\ pc' = "idle"
        /\ \A s \in Sessions, message \in ChatMessages :
              AllBlank(message) /\ FlaskReceives(s, message) =>
                  /\ cookie' = cookie
                  /\ req' = req
                  /\ calls' = calls
                  /\ out'.status = 400
      ]_vars

\* C2 witness: the handler has answered 400 to a browser whose conversation
\* holds an answered exchange.
C2_Witness ==
    /\ out.status = 400
    /\ \E s \in Sessions : Len(cookie[s]) = 2
    /\ calls = 1

\* The number of lines of the text that are "User: <message>".
UserLinesOf(text, message) ==
    Cardinality({ i \in 1..Len(SplitLines(text)) :
                    SplitLines(text)[i] = UserLabel \o <<":", " ">> \o message })

\* The transcript before the last turn holds no user turn with the message.
FirstTimeSaid(history, message) ==
    \A i \in 1..(Len(history) - 1) :
        ~(history[i].role = "user" /\ history[i].content = message)

\* C4: the prompt sent to the client holds the new message exactly once, in
\* its final line "User: <message>": the context the builder returned does not
\* hold it (for a message not said before in the conversation).
C4_MessageOnceInPrompt ==
    /\ (entry = "chat.py" /\ pc = "processing"
            /\ FirstTimeSaid(conversation_history, user_input))
       => UserLinesOf(full_prompt, user_input) = 1
    /\ \A r \in Requests :
          (req[r].st = "inflight" /\ FirstTimeSaid(req[r].session, req[r].user_message))
          => UserLinesOf(req[r].full_prompt, req[r].user_message) = 1

\* C5: while a /chat request of a session identity runs, no other request of
\* that identity mutates the identity's history.
C5_MutualExclusionPerSession ==
    \A r \in Requests :
        req[r].st = "inflight" => cookie[req[r].sid] = req[r].loaded

\* The line is the /clear command.
IsClearLine(line) == lower(strip(line)) = CmdClear

\* C6: after a clear (the loop's /clear, POST /clear) the transcript is the
\* empty sequence whatever it was before, an empty one included, and a context
\* built next is the persona string.
C6_ClearEmpties ==
    [][ /\ \A line \in LoopLines :
              IsClearLine(line) /\ ChatReads(line) =>
                  /\ conversation_history' = <<>>
                  /\ GeminiChat_build_context(conversation_history') = Persona
                  /\ pc' = "idle"
        /\ \A s \in Sessions :
              FlaskClear(s) =>
                  /\ cookie'[s] = <<>>
                  /\ build_context(cookie'[s]) = Persona
                  /\ out'.status = 200
      ]_vars

\* C6 witness: the loop has cleared a conversation after two inputs.
C6_Witness ==
    /\ entry = "chat.py"
    /\ out.body = <<"cleared">>
    /\ accepted = 2
    /\ conversation_history = <<>>

\* The line begins with the command prefix.
IsCommandLine(line) == strip(line) # <<>> /\ Head(strip(line)) = "/"

IsExitLine(line) == lower(strip(line)) = CmdExit

\* C7: in the loop an input that begins with "/" never enters processing: no
\* completion call, no turn appended; the history changes only on /clear;
\* /help, /history and unknown commands leave history and session state
\* unchanged and return to idle.
C7_CommandsNeverProcess ==
    [][ \A line \in LoopLines :
            IsCommandLine(line) /\ ChatReads(line) =>
                /\ calls' = calls
                /\ accepted' = accepted
                /\ pc' # "processing"
                /\ full_prompt' = full_prompt
                /\ Len(conversation_history') <= Len(conversation_history)
                /\ ~IsClearLine(line) => conversation_history' = conversation_history
                /\ (~IsClearLine(line) /\ ~IsExitLine(line)) =>
                      /\ pc' = "idle"
                      /\ client' = client
                      /\ exit_status' = exit_status
      ]_vars

\* C7 witness: an unknown command was answered with the hint while the
\* conversation holds turns.
C7_Witness ==
    /\ entry = "chat.py"
    /\ pc = "idle"
    /\ out.body = <<"unknown_command", "help_hint">>
    /\ Len(conversation_history) = 2

\* The transcript of a conversation, and whether an exchange of it is under way.
Transcript(c) == IF c = "loop" THEN conversation_history ELSE cookie[c]

Underway(c) ==
    IF c = "loop" THEN pc = "processing"
    ELSE \E r \in Requests : req[r].st = "inflight" /\ req[r].sid = c

\* C8: from an empty conversation, after n ordinary inputs whose completions
\* all succeeded and no clear, the transcript has length 2n: the user turn of
\* the k-th input, then the assistant turn with the k-th returned text.
C8_RoundTrip ==
    \A c \in Conversations :
        (clean[c] /\ ~Underway(c)) => RolesContents(Transcript(c)) = expected[c]

\* The content is non-empty and has no leading or trailing whitespace.
Trimmed(content) == content # <<>> /\ strip(content) = content

\* C9: every stored turn, of either role, has trimmed, non-empty content.
C9_StoredContentTrimmed ==
    \A c \in Conversations :
        \A i \in 1..Len(Transcript(c)) : Trimmed(Transcript(c)[i].content)

\* C10: with the credential absent each entry point (chat.py main, the
\* server's __main__ block, first.py main) ends the process with a non-zero
\* status after printing guidance, without reaching the session loop or
\* issuing a completion call.
C10_MissingKeyExitsNonZero ==
    (KeyMissing(GEMINI_API_KEY) /\ entry \in {"chat.py", "FlaskServer.__main__", "first.py"})
    => /\ pc \in {"main", "exited"}
       /\ calls = 0
       /\ pc = "exited" =>
             /\ exit_status > 0
             /\ out.body \in {<<"guidance">>, <<"runtime_error">>}

\* C11: the client is held only inside its with block and is released on
\* every way out of it: once the loop's session (or first.py) has ended the
\* client is closed, and the client opened for a /chat request is closed when
\* the request has returned, with a response or with a 500.  No terminal state
\* has an open client.
C11_ClientReleased ==
    /\ pc = "exited" => client # "open"
    /\ client = "open" => pc \in {"idle", "processing"}
    /\ \A r \in Requests :
          /\ req[r].st = "done" => req[r].client # "open"
          /\ req[r].client = "open" => req[r].st = "inflight"

\* C11 witness: a /chat request that had opened a client has returned a 500,
\* its client closed.
C11_Witness ==
    /\ out.status = 500
    /\ \E r \in Requests : req[r].st = "done" /\ req[r].client = "closed"

\* C12: in the loop an interrupt received while idle or while the call is in
\* flight ends the session at once: the step leads to the ended state with the
\* farewell, appends no turn and issues no call, an interrupt during the call
\* does not lead back to idle, and from the ended state no step is taken (no
\* input read, no turn appended, no call issued).
C12_InterruptEnds ==
    [][ /\ ChatInterrupt =>
              /\ pc' = "exited"
              /\ out'.body = <<"newline", "goodbye">>
              /\ conversation_history' = conversation_history
              /\ calls' = calls
              /\ accepted' = accepted
        /\ (entry = "chat.py" /\ pc = "exited") => UNCHANGED mainVars
      ]_vars

\* C12 witness: the session was ended by an interrupt with one call issued
\* and the input's user turn left unanswered.
C12_Witness ==
    /\ entry = "chat.py"
    /\ pc = "exited"
    /\ out.body = <<"newline", "goodbye">>
    /\ calls = 1
    /\ Len(conversation_history) = 1
    /\ conversation_history[1].content = user_input

\* C13: a bad exchange never ends the session.  In the loop a failed call, or
\* another failure that is no interrupt, is reported and the loop is idle
\* again with its client open and the process running; the loop's session ends
\* only by /exit or by an interrupt.  A /chat request that fails is answered
\* with a 500 and the server goes on serving.
C13_BadExchangeKeepsSession ==
    [][ /\ \A response \in Outcomes, now \in Readings :
              CompletionFails(response) /\ ChatResponse(response, now) =>
                  /\ pc' = "idle"
                  /\ out'.body \in FailureNotices
                  /\ client' = "open"
                  /\ exit_status' = -1
        /\ ChatInputError =>
              /\ pc' = "idle"
              /\ out'.body = <<"error_occurred">>
              /\ client' = "open"
        /\ (entry = "chat.py" /\ pc \in {"idle", "processing"} /\ pc' = "exited") =>
              \/ ChatInterrupt
              \/ \E line \in LoopLines : IsExitLine(line) /\ ChatCommand(line)
        /\ \A r \in Requests, response \in Outcomes, now \in Readings :
              CompletionFails(response) /\ FlaskChatResponse(r, response, now) =>
                  /\ out'.status = 500
                  /\ pc' = "serving"
        /\ (entry \in FlaskEntries /\ pc = "serving") => pc' = "serving"
      ]_vars

\* C13 witness: after a failed call the loop has taken the next input and
\* printed its answer.
C13_Witness ==
    /\ entry = "chat.py"
    /\ pc = "idle"
    /\ out.body = <<"reply">>
    /\ ~clean["loop"]
    /\ Len(conversation_history) = 3

\* The number of times the notice occurs in what was printed.
Notices(body, notice) == Cardinality({ i \in 1..Len(body) : body[i] = notice })

C15_EmptyGivesPersona ==
    (builds > 0 /\ bHistory = <<>>) =>
        /\ bContextChat = Persona
        /\ bContextFlask = Persona
        /\ Len(SplitLines(bContextChat)) = 1
        /\ ~startswith(bContextChat, Preamble)
        /\ ~startswith(bContextFlask, Preamble)

\* C15 witness: the builders have run on the empty transcript.
C15_Witness ==
    /\ builds = MaxBuilds
    /\ bHistory = <<>>
    /\ bContextChat = Persona
    /\ bContextFlask = Persona

C17_TimestampsNonDecreasing ==
    \A c \in Conversations :
        \A i \in 1..(Len(Transcript(c)) - 1) :
            Transcript(c)[i].timestamp <= Transcript(c)[i + 1].timestamp

\* C18: whenever the client is invoked for an ordinary input (loop or /chat)
\* the history is non-empty and its last turn is the user turn holding the
\* current message; the context in the prompt is therefore the preamble form,
\* never the persona string of the empty history.
C18_CallSeesUserTurn ==
    /\ (entry = "chat.py" /\ pc = "processing") =>
          /\ conversation_history # <<>>
          /\ conversation_history[Len(conversation_history)].role = "user"
          /\ conversation_history[Len(conversation_history)].content = user_input
          /\ startswith(full_prompt, Preamble \o <<"\n">>)
          /\ ~startswith(full_prompt, Persona)
    /\ \A r \in Requests :
          req[r].st = "inflight" =>
              /\ req[r].session # <<>>
              /\ req[r].session[Len(req[r].session)].role = "user"
              /\ req[r].session[Len(req[r].session)].content = req[r].user_message
              /\ startswith(req[r].full_prompt, Preamble \o <<"\n">>)
              /\ ~startswith(req[r].full_prompt, Persona)

\* C18 witness: the loop's call for the first message of a conversation is in
\* flight.
C18_Witness ==
    /\ entry = "chat.py"
    /\ pc = "processing"
    /\ Len(conversation_history) = 1
    /\ accepted = 1
    /\ full_prompt # <<>>

\* Turns i and i + 1 of the loop's history are both user turns, for some i.
TwoUserTurnsInARow ==
    \E i \in 1..(Len(conversation_history) - 1) :
        /\ conversation_history[i].role = "user"
        /\ conversation_history[i + 1].role = "user"

\* C19: in the loop the history never begins with an assistant turn, every
\* assistant turn comes right after a user turn, and two user turns in a row
\* occur only when a completion failed or was interrupted since the history
\* was last empty.
C19_LoopAlternation ==
    entry = "chat.py" =>
        /\ conversation_history # <<>> => conversation_history[1].role = "user"
        /\ \A i \in 2..Len(conversation_history) :
              conversation_history[i].role = "assistant" =>
                  conversation_history[i - 1].role = "user"
        /\ TwoUserTurnsInARow => ~clean["loop"]

\* C19 witness: after a failed completion the next input was answered: user,
\* user, assistant.
C19_Witness ==
    /\ entry = "chat.py"
    /\ pc = "idle"
    /\ TwoUserTurnsInARow
    /\ Len(conversation_history) = 3
    /\ conversation_history[3].role = "assistant"

\* The first list is a prefix of the second.
IsPrefix(before, after) ==
    /\ Len(before) <= Len(after)
    /\ SubSeq(after, 1, Len(before)) = before

\* The step is a clear: the loop's /clear, or POST /clear.
ClearStep ==
    \/ \E line \in LoopLines : IsClearLine(line) /\ ChatCommand(line)
    \/ \E s \in Sessions : FlaskClear(s)

\* C20: the history is append-only between clears: over a step that is no
\* clear the history before the step is a prefix of the history after it, in
\* the loop and for every session identity of the handler, and a step adds at
\* most one turn to the list it works on.
C20_AppendOnly ==
    [][ ~ClearStep =>
            /\ IsPrefix(conversation_history, conversation_history')
            /\ Len(conversation_history') <= Len(conversation_history) + 1
            /\ \A s \in Sessions : IsPrefix(cookie[s], cookie'[s])
            /\ \A r \in Requests :
                  /\ req'[r].st = "inflight" =>
                        /\ IsPrefix(req'[r].loaded, req'[r].session)
                        /\ Len(req'[r].session) <= Len(req'[r].loaded) + 1
                  /\ (req[r].st = "inflight" /\ req'[r].st = "done") =>
                        /\ IsPrefix(req[r].session, cookie'[req[r].sid])
                        /\ Len(cookie'[req[r].sid]) <= Len(req[r].session) + 1
      ]_vars

=============================================================================
